---- MODULE Spec2Model ----
(***************************************************************************)
(* A model of har_parse.py: the extraction of JavaScript assets from two   *)
(* HAR captures (getJS), the normalisation of their URLs, and the          *)
(* one-directional comparison of the two snapshots (compareJS).            *)
(*                                                                         *)
(* Python strings are sequences of one-character strings, so that the      *)
(* regular expressions, str.find, str.lower and the `in` test are computed *)
(* character by character as the interpreter computes them.                *)
(***************************************************************************)
EXTENDS Integers, Sequences, FiniteSets, TLC

VARIABLES
    pc,                         \* position in the script's top-level flow
    harFiles,                   \* contents of the files named by argv[1], argv[2]
    baselineDict,               \* result of readHAR(sys.argv[1])
    toCompareDict,              \* result of readHAR(sys.argv[2])
    baselineFilesFoundDetails,  \* result of getJS(baselineDict, debug)
    compareFilesFoundDetails,   \* result of getJS(toCompareDict, debug)
    foundDifferences,           \* result of compareJS
    summary_log_string,         \* what the run appends to the summary line
    nPc,                        \* normaliser runs: position
    nUrl,                       \* normaliser runs: entry['request']['url']
    nTitle,                     \* normaliser runs: the page title
    nRedacted,                  \* url after the query-string substitution
    nCanon,                     \* url after the whole normalisation
    nCanon2                     \* the normalisation applied to its own output

vars == <<pc, harFiles, baselineDict, toCompareDict, baselineFilesFoundDetails,
          compareFilesFoundDetails, foundDifferences, summary_log_string,
          nPc, nUrl, nTitle, nRedacted, nCanon, nCanon2>>

flowVars == <<pc, harFiles, baselineDict, toCompareDict, baselineFilesFoundDetails,
              compareFilesFoundDetails, foundDifferences, summary_log_string>>

normVars == <<nPc, nUrl, nTitle, nRedacted, nCanon, nCanon2>>

(***************************************************************************)
(* Bounds of the model.                                                    *)
(***************************************************************************)
\* entries per capture document
MaxEntries == 2

\* fragments a raw URL of the normaliser runs is concatenated from
MaxFrags == 3

(***************************************************************************)
(* Strings.                                                                *)
(***************************************************************************)
EmptyStr == <<>>

UpperChars == <<"A", "B", "C", "D", "E", "F", "G", "H", "I", "J", "K", "L", "M", "N", "O", "P", "Q", "R", "S", "T", "U", "V", "W", "X", "Y", "Z">>

LowerChars == <<"a", "b", "c", "d", "e", "f", "g", "h", "i", "j", "k", "l", "m", "n", "o", "p", "q", "r", "s", "t", "u", "v", "w", "x", "y", "z">>

\* str.lower() on one character
LowerChar(c) ==
    IF \E i \in 1..Len(UpperChars) : UpperChars[i] = c
    THEN LowerChars[CHOOSE i \in 1..Len(UpperChars) : UpperChars[i] = c]
    ELSE c

\* str.lower()
Lower(s) == [i \in 1..Len(s) |-> LowerChar(s[i])]

\* does sub occur in s at (1-based) position i
OccursAt(s, i, sub) ==
    /\ i + Len(sub) - 1 <= Len(s)
    /\ \A k \in 1..Len(sub) : s[i + k - 1] = sub[k]

\* str.find(sub): the lowest 0-based index of sub in s, -1 when there is none
find(s, sub) ==
    IF \E i \in 1..(Len(s) + 1) : OccursAt(s, i, sub)
    THEN (CHOOSE i \in 1..(Len(s) + 1) :
              /\ OccursAt(s, i, sub)
              /\ \A j \in 1..(i - 1) : ~OccursAt(s, j, sub)) - 1
    ELSE -1

\* the `in` operator on strings
Contains(s, sub) == \E i \in 1..(Len(s) + 1) : OccursAt(s, i, sub)

\* what \d matches
IsDigit(c) == c \in {"0", "1", "2", "3", "4", "5", "6", "7", "8", "9"}

\* s[i..] (1-based), the empty string past the end
Suffix(s, i) == SubSeq(s, i, Len(s))

(***************************************************************************)
(* re.sub('\?.+$', '[qstring redacted]', url)                              *)
(***************************************************************************)
QstringMarker == <<"[", "q", "s", "t", "r", "i", "n", "g", " ", "r", "e", "d", "a", "c", "t", "e", "d", "]">>

\* the last position of the run of non-newline characters starting at i
\* (i - 1 when s[i] is a newline or i is past the end): what `.+` can take
DotRunEnd(s, i) ==
    CHOOSE r \in (i - 1)..Len(s) :
        /\ \A k \in i..r : s[k] /= "\n"
        /\ (r = Len(s) \/ s[r + 1] = "\n")

\* `$` without MULTILINE: the end of the string, or just before a newline
\* that ends the string
DollarAt(s, r) ==
    \/ r = Len(s)
    \/ (r = Len(s) - 1 /\ s[Len(s)] = "\n")

\* does '\?.+$' match at position i
QstringMatchAt(s, i) ==
    /\ i \in 1..Len(s)
    /\ s[i] = "?"
    /\ DotRunEnd(s, i + 1) >= i + 1
    /\ DollarAt(s, DotRunEnd(s, i + 1))

redactQstring(s) ==
    IF \E i \in 1..Len(s) : QstringMatchAt(s, i)
    THEN LET i == CHOOSE i \in 1..Len(s) :
                      /\ QstringMatchAt(s, i)
                      /\ \A j \in 1..(i - 1) : ~QstringMatchAt(s, j)
         IN  SubSeq(s, 1, i - 1) \o QstringMarker \o Suffix(s, DotRunEnd(s, i + 1) + 1)
    ELSE s

(***************************************************************************)
(* re.sub('/version\d+/', '/version9999999999/', url) and                  *)
(* re.sub('/v\d+/', '/v9999999999/', url)                                  *)
(***************************************************************************)
VersionWord == <<"v", "e", "r", "s", "i", "o", "n">>

VWord == <<"v">>

Nines == <<"9", "9", "9", "9", "9", "9", "9", "9", "9", "9">>

\* the last position of the run of digits starting at i (i - 1 when none)
DigitRunEnd(s, i) ==
    CHOOSE r \in (i - 1)..Len(s) :
        /\ \A k \in i..r : IsDigit(s[k])
        /\ (r = Len(s) \/ ~IsDigit(s[r + 1]))

\* length of the match of '/' word '\d+/' at position i, 0 when there is none
VersionMatchLen(s, i, word) ==
    LET d == i + 1 + Len(word)
        r == DigitRunEnd(s, d)
    IN  IF /\ OccursAt(s, i, <<"/">> \o word)
           /\ r >= d
           /\ r + 1 <= Len(s)
           /\ s[r + 1] = "/"
        THEN r + 1 - i + 1
        ELSE 0

\* what a match is replaced by
VersionReplacementNoSlash(word) == word \o Nines \o <<"/">>

VersionReplacement(word) == <<"/">> \o word \o Nines \o <<"/">>

\* re.sub scans left to right and resumes after each match it replaced
RECURSIVE reSubVersionFrom(_, _, _)
reSubVersionFrom(s, i, word) ==
    IF i > Len(s)
    THEN <<>>
    ELSE IF VersionMatchLen(s, i, word) > 0
         THEN VersionReplacement(word)
                  \o reSubVersionFrom(s, i + VersionMatchLen(s, i, word), word)
         ELSE <<s[i]>> \o reSubVersionFrom(s, i + 1, word)

reSubVersion(s, word) == reSubVersionFrom(s, 1, word)

(***************************************************************************)
(* re.match('^(https://[^/]+)', title, re.IGNORECASE)                      *)
(***************************************************************************)
HttpsScheme == <<"h", "t", "t", "p", "s", ":", "/", "/">>

\* the last position of the run of non-'/' characters starting at i
NonSlashRunEnd(s, i) ==
    CHOOSE r \in (i - 1)..Len(s) :
        /\ \A k \in i..r : s[k] /= "/"
        /\ (r = Len(s) \/ s[r + 1] = "/")

\* page_domain: group(1) of the match, "" when the title does not match
pageDomain(title) ==
    IF /\ Len(title) >= Len(HttpsScheme)
       /\ Lower(SubSeq(title, 1, Len(HttpsScheme))) = HttpsScheme
       /\ NonSlashRunEnd(title, Len(HttpsScheme) + 1) > Len(HttpsScheme)
    THEN SubSeq(title, 1, NonSlashRunEnd(title, Len(HttpsScheme) + 1))
    ELSE EmptyStr

(***************************************************************************)
(* The normalisation of a request URL                                      *)
(***************************************************************************)
\* `if url.find(page_domain): pass`: the else branch is taken when find
\* returns 0
takesVersionBranchWhenFound(url, page_domain) == find(url, page_domain) /= -1

takesVersionBranch(url, page_domain) == find(url, page_domain) = 0

versionNormalize(url) == reSubVersion(reSubVersion(url, VersionWord), VWord)

normalizeUrl(rawUrl, page_domain) ==
    LET url == redactQstring(rawUrl)
    IN  IF takesVersionBranch(url, page_domain)
        THEN versionNormalize(url)
        ELSE url

(***************************************************************************)
(* The content hash.  hashlib.md5 is modelled by a 16-bit multiplicative   *)
(* hash over the bytes fed to update(), printed as four hexadecimal        *)
(* digits: like MD5 it depends on every byte and on their order, and       *)
(* update() accumulates.                                                   *)
(***************************************************************************)
HexDigits == <<"0", "1", "2", "3", "4", "5", "6", "7", "8", "9", "a", "b", "c", "d", "e", "f">>

DecDigits == <<"0", "1", "2", "3", "4", "5", "6", "7", "8", "9">>

\* the value m holds right after hashlib.md5(): no bytes fed yet
md5_new == <<>>

\* m.update(data)
md5_update(m, data) == m \o data

RECURSIVE md5_fold(_, _)
md5_fold(bytes, h) ==
    IF bytes = <<>>
    THEN h
    ELSE md5_fold(Tail(bytes), (h * 33 + Head(bytes)) % 65536)

\* m.hexdigest()
md5_hexdigest(m) ==
    LET h == md5_fold(m, 5381)
    IN  << HexDigits[((h \div 4096) % 16) + 1], HexDigits[((h \div 256) % 16) + 1],
           HexDigits[((h \div 16) % 16) + 1], HexDigits[(h % 16) + 1] >>

\* the code point U+00E9, one character of a body text
EAcute == "U+00E9"

\* the UTF-8 bytes of one character
Utf8Char(c) ==
    IF c = EAcute
    THEN <<195, 169>>
    ELSE IF c = " "
    THEN <<32>>
    ELSE IF \E i \in 1..Len(UpperChars) : UpperChars[i] = c
    THEN <<64 + (CHOOSE i \in 1..Len(UpperChars) : UpperChars[i] = c)>>
    ELSE IF \E i \in 1..Len(LowerChars) : LowerChars[i] = c
    THEN <<96 + (CHOOSE i \in 1..Len(LowerChars) : LowerChars[i] = c)>>
    ELSE <<47 + (CHOOSE i \in 1..Len(DecDigits) : DecDigits[i] = c)>>

\* str.encode('utf-8')
RECURSIVE encode_utf8(_)
encode_utf8(text) ==
    IF text = <<>>
    THEN <<>>
    ELSE Utf8Char(Head(text)) \o encode_utf8(Tail(text))

(***************************************************************************)
(* getJS                                                                   *)
(***************************************************************************)
\* a dict with no keys
EmptyDict == [k \in {} |-> 0]

\* d[key] = value
DictSet(d, key, value) == (key :> value) @@ d

ContentTypeName == <<"c", "o", "n", "t", "e", "n", "t", "-", "t", "y", "p", "e">>

JavascriptWord == <<"j", "a", "v", "a", "s", "c", "r", "i", "p", "t">>

RefererName == <<"r", "e", "f", "e", "r", "e", "r">>

AnomalyText == <<"A", "D", "D", "E", "D", " ", "T", "E", "X", "T", " ", "T", "O", " ", "A", "N", "O", "M", "O", "L", "Y">>

RedactedText == <<"r", "e", "d", "a", "c", "t", "e", "d">>

\* header['name'].lower() == 'content-type' and "javascript" in header['value']
isJavaScriptHeaderCaseSensitive(header) ==
    /\ header.name = ContentTypeName
    /\ Contains(header.value, JavascriptWord)

isJavaScriptHeader(header) ==
    /\ Lower(header.name) = ContentTypeName
    /\ Contains(header.value, JavascriptWord)

\* entry['response']['content']['text'] = "ADDED TEXT TO ANOMOLY" when the
\* content has no 'text' key
withText(entry) ==
    IF "text" \in DOMAIN entry.response.content
    THEN entry
    ELSE [entry EXCEPT !.response.content =
              [size |-> entry.response.content.size, text |-> AnomalyText]]

\* the loop over entry['request']['headers']: the last referer header wins
RECURSIVE refererLoop(_, _, _)
refererLoop(headers, k, referer) ==
    IF k > Len(headers)
    THEN referer
    ELSE IF Lower(headers[k].name) = RefererName
         THEN refererLoop(headers, k + 1, redactQstring(headers[k].value))
         ELSE refererLoop(headers, k + 1, referer)

\* JSFiles[url] = {} and the assignments of its four keys
recordJSFileKeepingReferer(JSFiles, url, entry, m) ==
    DictSet(JSFiles, url,
        [size    |-> entry.response.content.size,
         hash    |-> md5_hexdigest(m),
         text    |-> RedactedText,
         referer |-> refererLoop(entry.request.headers, 1,
                         IF url \in DOMAIN JSFiles THEN JSFiles[url].referer ELSE EmptyStr)])

recordJSFile(JSFiles, url, entry, m) ==
    DictSet(JSFiles, url,
        [size    |-> entry.response.content.size,
         hash    |-> md5_hexdigest(m),
         text    |-> RedactedText,
         referer |-> refererLoop(entry.request.headers, 1, EmptyStr)])

\* the loop over entry['response']['headers'], from header k on, with the
\* entry, the JSFiles and the hash object m as they are on reaching it
RECURSIVE responseHeaderLoop(_, _, _, _, _)
responseHeaderLoop(entry, url, JSFiles, m, k) ==
    IF k > Len(entry.response.headers)
    THEN [entry |-> entry, JSFiles |-> JSFiles]
    ELSE IF isJavaScriptHeader(entry.response.headers[k])
         THEN LET entry2 == withText(entry)
                  m2 == md5_update(m, encode_utf8(entry2.response.content.text))
              IN  responseHeaderLoop(entry2, url,
                      recordJSFile(JSFiles, url, entry2, m2), m2, k + 1)
         ELSE responseHeaderLoop(entry, url, JSFiles, m, k + 1)

\* one iteration of `for entry in all_entries_array`
getJSEntry(entry, page_domain, JSFiles) ==
    responseHeaderLoop(entry, normalizeUrl(entry.request.url, page_domain),
                       JSFiles, md5_new, 1)

\* the loop over the entries, from entry k on; the entries are objects of
\* outerDict, so what an iteration writes into its entry is written into
\* outerDict
RECURSIVE entriesLoop(_, _, _, _)
entriesLoop(entries, page_domain, JSFiles, k) ==
    IF k > Len(entries)
    THEN [entries |-> entries, JSFiles |-> JSFiles]
    ELSE LET r == getJSEntry(entries[k], page_domain, JSFiles)
         IN  entriesLoop([entries EXCEPT ![k] = r.entry], page_domain, r.JSFiles, k + 1)

\* getJS(outerDict, debug): the returned dict, and outerDict as the call
\* leaves it
getJS(outerDict) ==
    LET file_details == [title |-> outerDict.log.pages[1].title,
                         startedDateTime |-> outerDict.log.pages[1].startedDateTime]
        r == entriesLoop(outerDict.log.entries, pageDomain(file_details.title),
                         EmptyDict, 1)
    IN  [JSFiles     |-> r.JSFiles,
         fileDetails |-> file_details,
         outerDict   |-> [outerDict EXCEPT !.log.entries = r.entries]]

(***************************************************************************)
(* compareJS                                                               *)
(***************************************************************************)
\* baseDict[key]['hash'] != compDict[key]['hash']
hashesDifferInverted(baseRecord, compRecord) == baseRecord.hash = compRecord.hash

hashesDiffer(baseRecord, compRecord) == baseRecord.hash /= compRecord.hash

\* {'baseline' : baseDict[key]['hash'], 'compare' : compDict[key]['hash']}
hashPairSwapped(baseRecord, compRecord) ==
    [baseline |-> compRecord.hash, compare |-> baseRecord.hash]

hashPair(baseRecord, compRecord) ==
    [baseline |-> baseRecord.hash, compare |-> compRecord.hash]

\* `for key in compDict`, with the keys still to visit
RECURSIVE compareLoop(_, _, _, _)
compareLoop(keys, baseDict, compDict, differences) ==
    IF keys = {}
    THEN differences
    ELSE LET key == CHOOSE k \in keys : TRUE
             next ==
                 IF key \notin DOMAIN baseDict
                 THEN [differences EXCEPT !.newJS = DictSet(@, key, 1)]
                 ELSE IF hashesDiffer(baseDict[key], compDict[key])
                      THEN [differences EXCEPT !.hashDifferentJS =
                                DictSet(@, key, hashPair(baseDict[key], compDict[key]))]
                      ELSE differences
         IN  compareLoop(keys \ {key}, baseDict, compDict, next)

compareJS(baseDict, compDict) ==
    compareLoop(DOMAIN compDict, baseDict, compDict,
                [newJS |-> EmptyDict, hashDifferentJS |-> EmptyDict])

(***************************************************************************)
(* Capture documents the runs read.                                        *)
(***************************************************************************)
Header(name, value) == [name |-> name, value |-> value]

Entry(url, requestHeaders, responseHeaders, content) ==
    [request  |-> [url |-> url, headers |-> requestHeaders],
     response |-> [headers |-> responseHeaders, content |-> content]]

UrlA1 == <<"h", "t", "t", "p", "s", ":", "/", "/", "a", "/", "v", "1", "/", "x", "?", "1">>

UrlA2 == <<"h", "t", "t", "p", "s", ":", "/", "/", "a", "/", "v", "2", "/", "x", "?", "2">>

UrlB == <<"h", "t", "t", "p", "s", ":", "/", "/", "b", "/", "y">>

RefererHeader == Header(<<"R", "e", "f", "e", "r", "e", "r">>, <<"h", "t", "t", "p", "s", ":", "/", "/", "a", "/", "p", "?", "q">>)

LowerRefererHeader == Header(<<"r", "e", "f", "e", "r", "e", "r">>, <<"h", "t", "t", "p", "s", ":", "/", "/", "a", "/", "p", "?", "r">>)

JsHeader == Header(<<"C", "o", "n", "t", "e", "n", "t", "-", "T", "y", "p", "e">>, <<"a", "p", "p", "l", "i", "c", "a", "t", "i", "o", "n", "/", "j", "a", "v", "a", "s", "c", "r", "i", "p", "t">>)

LowerJsHeader == Header(<<"c", "o", "n", "t", "e", "n", "t", "-", "t", "y", "p", "e">>, <<"t", "e", "x", "t", "/", "j", "a", "v", "a", "s", "c", "r", "i", "p", "t">>)

UpperJsHeader == Header(<<"C", "O", "N", "T", "E", "N", "T", "-", "T", "Y", "P", "E">>, <<"a", "p", "p", "l", "i", "c", "a", "t", "i", "o", "n", "/", "j", "a", "v", "a", "s", "c", "r", "i", "p", "t">>)

HtmlHeader == Header(<<"c", "o", "n", "t", "e", "n", "t", "-", "t", "y", "p", "e">>, <<"t", "e", "x", "t", "/", "h", "t", "m", "l">>)

OtherHeader == Header(<<"x", "-", "o", "t", "h", "e", "r">>, <<"a", "p", "p", "l", "i", "c", "a", "t", "i", "o", "n", "/", "j", "a", "v", "a", "s", "c", "r", "i", "p", "t">>)

\* response.content with and without the optional 'text'
Content(size, text) == [size |-> size, text |-> text]

ContentNoText(size) == [size |-> size]

Entries ==
    { Entry(UrlA1, <<>>, <<JsHeader>>, Content(1, <<"a">>)),
      Entry(UrlA2, <<RefererHeader>>, <<LowerJsHeader>>, Content(2, <<"b">>)),
      Entry(UrlA1, <<LowerRefererHeader>>, <<JsHeader>>, ContentNoText(1)),
      Entry(UrlA2, <<>>, <<LowerJsHeader>>, ContentNoText(2)),
      Entry(UrlB, <<RefererHeader>>, <<LowerJsHeader, HtmlHeader, JsHeader>>, Content(2, <<"a">>)),
      Entry(UrlB, <<>>, <<HtmlHeader, OtherHeader>>, ContentNoText(1)),
      Entry(UrlB, <<RefererHeader, LowerRefererHeader>>, <<UpperJsHeader>>, Content(1, <<EAcute>>)) }

PageTitles == { <<"h", "t", "t", "p", "s", ":", "/", "/", "a", "/">>, <<"h", "t", "t", "p", "s", ":", "/", "/", "b", "/">>, <<"H", "o", "m", "e">> }

\* the parsed form of a capture file
HarDoc(title, entries) ==
    [log |-> [pages   |-> <<[title |-> title, startedDateTime |-> "2020-05-01T00:00:00Z"]>>,
              entries |-> entries]]

RECURSIVE EntrySeqs(_)
EntrySeqs(n) ==
    IF n = 0
    THEN {<<>>}
    ELSE EntrySeqs(n - 1) \cup { Append(s, e) : s \in EntrySeqs(n - 1), e \in Entries }

HarDocs == { HarDoc(t, es) : t \in PageTitles, es \in EntrySeqs(MaxEntries) }

\* a file that is not valid JSON
InvalidJson == [invalid |-> TRUE]

\* captures the second file is drawn from, besides a copy of the first
NewHarDocs ==
    { HarDoc(<<"h", "t", "t", "p", "s", ":", "/", "/", "a", "/">>,
             <<Entry(UrlA2, <<>>, <<JsHeader>>, Content(1, <<"b">>)),
               Entry(UrlB, <<>>, <<JsHeader>>, ContentNoText(1))>>),
      InvalidJson }

\* a variable the run has not assigned
NoFlow == [none |-> TRUE]

(***************************************************************************)
(* The script's top-level flow.                                            *)
(***************************************************************************)
Init ==
    /\ pc = "read_baseline"
    /\ \E first \in HarDocs \cup {InvalidJson} :
           \E second \in {first} \cup NewHarDocs :
               harFiles = <<first, second>>
    /\ baselineDict = NoFlow
    /\ toCompareDict = NoFlow
    /\ baselineFilesFoundDetails = NoFlow
    /\ compareFilesFoundDetails = NoFlow
    /\ foundDifferences = NoFlow
    /\ summary_log_string = ""
    /\ nPc = "idle"
    /\ nUrl = EmptyStr
    /\ nTitle = EmptyStr
    /\ nRedacted = EmptyStr
    /\ nCanon = EmptyStr
    /\ nCanon2 = EmptyStr

\* simplejson.load raises JSONDecodeError on a file that is not JSON
IsValidJson(file) == "log" \in DOMAIN file

\* baselineDict = readHAR(sys.argv[1])
ReadBaseline ==
    /\ pc = "read_baseline"
    /\ IF IsValidJson(harFiles[1])
       THEN /\ baselineDict' = harFiles[1]
            /\ pc' = "read_new"
       ELSE /\ baselineDict' = baselineDict
            /\ pc' = "exit_error"
    /\ UNCHANGED <<harFiles, toCompareDict, baselineFilesFoundDetails,
                   compareFilesFoundDetails, foundDifferences, summary_log_string>>
    /\ UNCHANGED normVars

\* toCompareDict = readHAR(sys.argv[2])
ReadNew ==
    /\ pc = "read_new"
    /\ IF IsValidJson(harFiles[2])
       THEN /\ toCompareDict' = harFiles[2]
            /\ pc' = "parse_baseline"
       ELSE /\ toCompareDict' = toCompareDict
            /\ pc' = "exit_error"
    /\ UNCHANGED <<harFiles, baselineDict, baselineFilesFoundDetails,
                   compareFilesFoundDetails, foundDifferences, summary_log_string>>
    /\ UNCHANGED normVars

\* baselineFilesFoundDetails = getJS(baselineDict, debug)
ParseBaseline ==
    /\ pc = "parse_baseline"
    /\ LET r == getJS(baselineDict)
       IN  /\ baselineFilesFoundDetails' = [JSFiles |-> r.JSFiles, fileDetails |-> r.fileDetails]
           /\ baselineDict' = r.outerDict
    /\ pc' = "parse_new"
    /\ UNCHANGED <<harFiles, toCompareDict, compareFilesFoundDetails, foundDifferences,
                   summary_log_string>>
    /\ UNCHANGED normVars

\* compareFilesFoundDetails = getJS(toCompareDict, debug)
ParseNew ==
    /\ pc = "parse_new"
    /\ LET r == getJS(toCompareDict)
       IN  /\ compareFilesFoundDetails' = [JSFiles |-> r.JSFiles, fileDetails |-> r.fileDetails]
           /\ toCompareDict' = r.outerDict
    /\ pc' = "compare"
    /\ UNCHANGED <<harFiles, baselineDict, baselineFilesFoundDetails, foundDifferences,
                   summary_log_string>>
    /\ UNCHANGED normVars

\* foundDifferences = compareJS(baselineFilesFound, compareFilesFound)
Compare ==
    /\ pc = "compare"
    /\ foundDifferences' = compareJS(baselineFilesFoundDetails.JSFiles,
                                     compareFilesFoundDetails.JSFiles)
    /\ pc' = "report"
    /\ UNCHANGED <<harFiles, baselineDict, toCompareDict, baselineFilesFoundDetails,
                   compareFilesFoundDetails, summary_log_string>>
    /\ UNCHANGED normVars

\* bool(d) of a dict
DictBool(d) == DOMAIN d /= {}

\* the report: the summary line says whether anything was found
Report ==
    /\ pc = "report"
    /\ summary_log_string' =
           IF ~DictBool(foundDifferences.newJS) /\ ~DictBool(foundDifferences.hashDifferentJS)
           THEN "no changes"
           ELSE "CHANGES"
    /\ pc' = "done"
    /\ UNCHANGED <<harFiles, baselineDict, toCompareDict, baselineFilesFoundDetails,
                   compareFilesFoundDetails, foundDifferences>>
    /\ UNCHANGED normVars

Next ==
    \/ ReadBaseline
    \/ ReadNew
    \/ ParseBaseline
    \/ ParseNew
    \/ Compare
    \/ Report

Spec == Init /\ [][Next]_vars

(***************************************************************************)
(* Comparison runs: compareJS on any two snapshots over a few URLs.        *)
(***************************************************************************)
DiffKeys ==
    { <<"h", "t", "t", "p", "s", ":", "/", "/", "a", "/", "v", "9", "9", "9", "9", "9", "9", "9", "9", "9", "9", "/", "x", "[", "q", "s", "t", "r", "i", "n", "g", " ", "r", "e", "d", "a", "c", "t", "e", "d", "]">>, <<"h", "t", "t", "p", "s", ":", "/", "/", "b", "/", "y">>, <<"h", "t", "t", "p", "s", ":", "/", "/", "c", "/", "z", ".", "j", "s">>,
      <<"h", "t", "t", "p", "s", ":", "/", "/", "d", "/", "w", ".", "j", "s">> }

DiffTexts == { <<"a">>, AnomalyText }

DiffRecords ==
    { [size |-> 1, hash |-> md5_hexdigest(encode_utf8(t)), text |-> RedactedText,
       referer |-> EmptyStr] : t \in DiffTexts }

Snapshots == UNION { [K -> DiffRecords] : K \in SUBSET DiffKeys }

DiffDetails == [title |-> <<"H", "o", "m", "e">>, startedDateTime |-> "2020-05-01T00:00:00Z"]

InitDiff ==
    /\ pc = "compare"
    /\ \E b \in Snapshots :
           baselineFilesFoundDetails = [JSFiles |-> b, fileDetails |-> DiffDetails]
    /\ \E c \in Snapshots :
           compareFilesFoundDetails = [JSFiles |-> c, fileDetails |-> DiffDetails]
    /\ harFiles = NoFlow
    /\ baselineDict = NoFlow
    /\ toCompareDict = NoFlow
    /\ foundDifferences = NoFlow
    /\ summary_log_string = ""
    /\ nPc = "idle"
    /\ nUrl = EmptyStr
    /\ nTitle = EmptyStr
    /\ nRedacted = EmptyStr
    /\ nCanon = EmptyStr
    /\ nCanon2 = EmptyStr

NextDiff == Compare \/ Report

SpecDiff == InitDiff /\ [][NextDiff]_vars

(***************************************************************************)
(* Normaliser runs: a raw URL and a page title, normalised once and then   *)
(* once more.                                                              *)
(***************************************************************************)
UrlFrags ==
    { <<"h", "t", "t", "p", "s", ":", "/", "/", "a">>, <<"h", "t", "t", "p", "s", ":", "/", "/", "v", "1">>, <<"/", "v", "1", "/">>, <<"v", "2", "/">>, <<"/", "v", "e", "r", "s", "i", "o", "n", "1", "2", "/">>, <<"x">>, <<"?">>, <<"\n">> }

RECURSIVE FragUrls(_)
FragUrls(n) ==
    IF n = 0
    THEN {<<>>}
    ELSE FragUrls(n - 1) \cup { u \o f : u \in FragUrls(n - 1), f \in UrlFrags }

ExampleUrl == <<"h", "t", "t", "p", "s", ":", "/", "/", "c", "d", "n", ".", "e", "x", "a", "m", "p", "l", "e", ".", "c", "o", "m", "/", "v", "e", "r", "s", "i", "o", "n", "1", "2", "/", "a", "p", "p", ".", "j", "s", "?", "x", "=", "1">>

ExampleTitle == <<"h", "t", "t", "p", "s", ":", "/", "/", "c", "d", "n", ".", "e", "x", "a", "m", "p", "l", "e", ".", "c", "o", "m", "/">>

ExampleCanon == <<"h", "t", "t", "p", "s", ":", "/", "/", "c", "d", "n", ".", "e", "x", "a", "m", "p", "l", "e", ".", "c", "o", "m", "/", "v", "e", "r", "s", "i", "o", "n", "9", "9", "9", "9", "9", "9", "9", "9", "9", "9", "/", "a", "p", "p", ".", "j", "s", "[", "q", "s", "t", "r", "i", "n", "g", " ", "r", "e", "d", "a", "c", "t", "e", "d", "]">>

RawUrls == FragUrls(MaxFrags) \cup {ExampleUrl}

Titles ==
    { <<"h", "t", "t", "p", "s", ":", "/", "/", "a", "/", "h", "o", "m", "e">>, <<"H", "T", "T", "P", "S", ":", "/", "/", "a">>, <<"h", "t", "t", "p", "s", ":", "/", "/", "v", "1", "/">>, <<"h", "t", "t", "p", "s", ":", "/", "/", "/", "a">>, <<"H", "o", "m", "e">>, ExampleTitle }

InitNorm ==
    /\ nPc = "raw"
    /\ nUrl \in RawUrls
    /\ nTitle \in Titles
    /\ nRedacted = EmptyStr
    /\ nCanon = EmptyStr
    /\ nCanon2 = EmptyStr
    /\ pc = "idle"
    /\ harFiles = NoFlow
    /\ baselineDict = NoFlow
    /\ toCompareDict = NoFlow
    /\ baselineFilesFoundDetails = NoFlow
    /\ compareFilesFoundDetails = NoFlow
    /\ foundDifferences = NoFlow
    /\ summary_log_string = ""

NormalizeOnce ==
    /\ nPc = "raw"
    /\ nRedacted' = redactQstring(nUrl)
    /\ nCanon' = normalizeUrl(nUrl, pageDomain(nTitle))
    /\ nPc' = "once"
    /\ UNCHANGED <<nUrl, nTitle, nCanon2>>
    /\ UNCHANGED flowVars

NormalizeTwice ==
    /\ nPc = "once"
    /\ nCanon2' = normalizeUrl(nCanon, pageDomain(nTitle))
    /\ nPc' = "twice"
    /\ UNCHANGED <<nUrl, nTitle, nRedacted, nCanon>>
    /\ UNCHANGED flowVars

NextNorm == NormalizeOnce \/ NormalizeTwice

SpecNorm == InitNorm /\ [][NextNorm]_vars
(***************************************************************************)
(* Properties of the comparison.                                           *)
(***************************************************************************)
BaseSnapshot == baselineFilesFoundDetails.JSFiles

CompSnapshot == compareFilesFoundDetails.JSFiles

Compared == pc \in {"report", "done"}

\* C1: compareJS returns as 'new' exactly the URLs of the comparison snapshot
\* that the baseline lacks, and as 'changed' exactly the URLs of both whose
\* hashes differ, each with the baseline's and the comparison's hash; a URL of
\* the baseline alone, or of both with equal hashes, is in neither.
DiffIsNewAndChanged ==
    Compared =>
        /\ DOMAIN foundDifferences.newJS = DOMAIN CompSnapshot \ DOMAIN BaseSnapshot
        /\ DOMAIN foundDifferences.hashDifferentJS =
               { k \in DOMAIN CompSnapshot \cap DOMAIN BaseSnapshot :
                     BaseSnapshot[k].hash /= CompSnapshot[k].hash }
        /\ \A k \in DOMAIN foundDifferences.hashDifferentJS :
               /\ foundDifferences.hashDifferentJS[k].baseline = BaseSnapshot[k].hash
               /\ foundDifferences.hashDifferentJS[k].compare = CompSnapshot[k].hash
        /\ \A k \in DOMAIN BaseSnapshot \ DOMAIN CompSnapshot :
               /\ k \notin DOMAIN foundDifferences.newJS
               /\ k \notin DOMAIN foundDifferences.hashDifferentJS
        /\ \A k \in DOMAIN BaseSnapshot \cap DOMAIN CompSnapshot :
               BaseSnapshot[k].hash = CompSnapshot[k].hash =>
                   /\ k \notin DOMAIN foundDifferences.newJS
                   /\ k \notin DOMAIN foundDifferences.hashDifferentJS

\* a comparison with a new URL, a changed URL, a removed URL and an unchanged one
DiffAllClassesWitness ==
    /\ Compared
    /\ DOMAIN foundDifferences.newJS /= {}
    /\ DOMAIN foundDifferences.hashDifferentJS /= {}
    /\ DOMAIN BaseSnapshot \ DOMAIN CompSnapshot /= {}
    /\ \E k \in DOMAIN BaseSnapshot \cap DOMAIN CompSnapshot :
           BaseSnapshot[k].hash = CompSnapshot[k].hash

(***************************************************************************)
(* Properties of the extraction, on the script's flow.                     *)
(***************************************************************************)
\* getJS(baselineDict, debug) has just returned
BaselineParsed == pc = "parse_new"

\* getJS(toCompareDict, debug) has just returned
NewParsed == pc = "compare"

\* an entry with a response header named content-type, in any case, whose
\* value contains javascript
HasJavaScriptContentType(entry) ==
    \E k \in 1..Len(entry.response.headers) :
        /\ Lower(entry.response.headers[k].name) = <<"c", "o", "n", "t", "e", "n", "t", "-", "t", "y", "p", "e">>
        /\ Contains(entry.response.headers[k].value, <<"j", "a", "v", "a", "s", "c", "r", "i", "p", "t">>)

\* the canonical URL of entry k of a capture file
CanonicalUrl(file, k) ==
    normalizeUrl(file.log.entries[k].request.url, pageDomain(file.log.pages[1].title))

\* the positions of the JavaScript entries of a capture file
JsPositions(file) ==
    { k \in 1..Len(file.log.entries) : HasJavaScriptContentType(file.log.entries[k]) }

\* the position of the last JavaScript entry of the file with this canonical URL
LastPosition(file, url) ==
    CHOOSE k \in JsPositions(file) :
        /\ CanonicalUrl(file, k) = url
        /\ \A j \in JsPositions(file) : CanonicalUrl(file, j) = url => j <= k

\* C2: two snapshots extracted from identical capture documents differ in
\* nothing: compareJS returns an empty 'new' and an empty 'changed'.
IdenticalCapturesNoDifferences ==
    (Compared /\ harFiles[1] = harFiles[2]) =>
        /\ DOMAIN foundDifferences.newJS = {}
        /\ DOMAIN foundDifferences.hashDifferentJS = {}

\* identical captures of two JavaScript entries with one canonical URL, one of
\* them without body text, compared and reported
IdenticalCapturesWitness ==
    /\ pc = "done"
    /\ harFiles[1] = harFiles[2]
    /\ JsPositions(harFiles[1]) = {1, 2}
    /\ CanonicalUrl(harFiles[1], 1) = CanonicalUrl(harFiles[1], 2)
    /\ \E k \in {1, 2} : "text" \notin DOMAIN harFiles[1].log.entries[k].response.content
    /\ summary_log_string = "no changes"

\* C3: the keys of a snapshot are exactly the canonical URLs of the entries
\* that have a content-type response header (name in any case) whose value
\* contains javascript; other entries contribute nothing.
SnapshotKeysAreJsEntries ==
    /\ BaselineParsed =>
           DOMAIN BaseSnapshot =
               { CanonicalUrl(harFiles[1], k) : k \in JsPositions(harFiles[1]) }
    /\ NewParsed =>
           DOMAIN CompSnapshot =
               { CanonicalUrl(harFiles[2], k) : k \in JsPositions(harFiles[2]) }

\* a capture of a JavaScript entry whose header is named CONTENT-TYPE and an
\* entry that is not JavaScript, extracted
SnapshotKeysWitness ==
    /\ BaselineParsed
    /\ Len(harFiles[1].log.entries) = 2
    /\ Cardinality(JsPositions(harFiles[1])) = 1
    /\ \E k \in JsPositions(harFiles[1]) :
           harFiles[1].log.entries[k].response.headers[1].name = <<"C", "O", "N", "T", "E", "N", "T", "-", "T", "Y", "P", "E">>
    /\ Cardinality(DOMAIN BaseSnapshot) = 1

\* the referer an entry alone gives its record: the value of its last referer
\* request header, query string redacted, or the empty string
OwnReferer(entry) ==
    LET at == { k \in 1..Len(entry.request.headers) :
                    Lower(entry.request.headers[k].name) = <<"r", "e", "f", "e", "r", "e", "r">> }
    IN  IF at = {}
        THEN EmptyStr
        ELSE redactQstring(
                 entry.request.headers[CHOOSE k \in at : \A j \in at : j <= k].value)

\* the record a capture of this entry alone has for it
OwnRecord(file, k) ==
    getJS(HarDoc(file.log.pages[1].title, <<file.log.entries[k]>>)).JSFiles[CanonicalUrl(file, k)]

\* C4: when several JavaScript entries have one canonical URL, the snapshot's
\* record for it is the last entry's: its size, its fingerprint and its
\* referer, the empty string when the last entry has no referer header.
LastWriteWins ==
    BaselineParsed =>
        \A url \in DOMAIN BaseSnapshot :
            LET k == LastPosition(harFiles[1], url)
            IN  /\ BaseSnapshot[url].size = harFiles[1].log.entries[k].response.content.size
                /\ BaseSnapshot[url].hash = OwnRecord(harFiles[1], k).hash
                /\ BaseSnapshot[url].referer = OwnReferer(harFiles[1].log.entries[k])
                /\ BaseSnapshot[url] = OwnRecord(harFiles[1], k)

\* two JavaScript entries with one canonical URL, the earlier with a referer
\* and another size, the later without referer: the record has the later's
LastWriteWinsWitness ==
    /\ BaselineParsed
    /\ JsPositions(harFiles[1]) = {1, 2}
    /\ CanonicalUrl(harFiles[1], 1) = CanonicalUrl(harFiles[1], 2)
    /\ OwnReferer(harFiles[1].log.entries[1]) /= EmptyStr
    /\ harFiles[1].log.entries[2].request.headers = <<>>
    /\ harFiles[1].log.entries[1].response.content.size
           /= harFiles[1].log.entries[2].response.content.size
    /\ Cardinality(DOMAIN BaseSnapshot) = 1
    /\ \A url \in DOMAIN BaseSnapshot :
           /\ BaseSnapshot[url].referer = EmptyStr
           /\ BaseSnapshot[url].size = harFiles[1].log.entries[2].response.content.size

\* the placeholder as the specification spells it
SpecifiedPlaceholder == <<"A", "D", "D", "E", "D", " ", "T", "E", "X", "T", " ", "T", "O", " ", "A", "N", "O", "M", "A", "L", "Y">>

\* the body text of an entry as read from the file, the specified placeholder
\* when it has none
BodyOrPlaceholder(entry) ==
    IF "text" \in DOMAIN entry.response.content
    THEN entry.response.content.text
    ELSE SpecifiedPlaceholder

\* C9: the fingerprint of a record is the digest of the UTF-8 encoding of its
\* entry's body text, or of the placeholder "ADDED TEXT TO ANOMALY" when the
\* entry has no body text, whatever the entry's response headers are.
FingerprintIsDigestOfBody ==
    BaselineParsed =>
        \A url \in DOMAIN BaseSnapshot :
            BaseSnapshot[url].hash =
                md5_hexdigest(encode_utf8(
                    BodyOrPlaceholder(harFiles[1].log.entries[LastPosition(harFiles[1], url)])))

\* C10: getJS leaves the capture document it is given as it was: after the
\* call every entry, with or without body text, is what was read.
ExtractionLeavesCaptureUnchanged ==
    /\ BaselineParsed => baselineDict = harFiles[1]
    /\ NewParsed => toCompareDict = harFiles[2]

(***************************************************************************)
(* Properties of the normalisation.                                        *)
(***************************************************************************)
Normalized == nPc \in {"once", "twice"}

\* s begins with p
StartsWith(s, p) == Len(p) <= Len(s) /\ SubSeq(s, 1, Len(p)) = p

\* C5: normalising a normalised URL changes nothing, for every URL and every
\* page title, with or without an origin.
NormalizeIdempotent == nPc = "twice" => nCanon2 = nCanon

\* a URL whose query string was redacted and whose version segment was
\* replaced, normalised again
NormalizeIdempotentWitness ==
    /\ nPc = "twice"
    /\ nRedacted /= nUrl
    /\ nCanon /= nRedacted
    /\ pageDomain(nTitle) /= EmptyStr
    /\ nCanon2 = nCanon

\* C6: when the title yields an origin, the version segments are replaced in
\* the URLs that begin with the origin and in no other URL; the specification's
\* example URL gets the canonical URL the specification gives.
VersionReplacedOnlyInternal ==
    (Normalized /\ pageDomain(nTitle) /= EmptyStr) =>
        /\ StartsWith(nRedacted, pageDomain(nTitle)) =>
               nCanon = reSubVersion(reSubVersion(nRedacted, <<"v", "e", "r", "s", "i", "o", "n">>), <<"v">>)
        /\ ~StartsWith(nRedacted, pageDomain(nTitle)) => nCanon = nRedacted
        /\ (nUrl = ExampleUrl /\ nTitle = ExampleTitle) => nCanon = ExampleCanon

\* the specification's example, normalised
VersionReplacedExampleWitness ==
    /\ Normalized
    /\ nUrl = ExampleUrl
    /\ nTitle = ExampleTitle
    /\ nCanon = ExampleCanon

\* C7: when the title yields no origin, no URL has its version segments
\* replaced: the canonical URL is the URL with its query string redacted.
NoOriginKeepsVersionSegments ==
    (Normalized /\ pageDomain(nTitle) = EmptyStr) => nCanon = nRedacted

\* the part of s before its first '?'
BeforeQuestionMark(s) ==
    SubSeq(s, 1, (CHOOSE i \in 1..Len(s) :
                      s[i] = "?" /\ \A j \in 1..(i - 1) : s[j] /= "?") - 1)

\* C8: a URL with a '?' is redacted to its part before the first '?' followed
\* by the marker, and the result has no '?', also when nothing follows the '?'.
QstringRedactedFromFirstQuestionMark ==
    (Normalized /\ Contains(nUrl, <<"?">>) /\ ~Contains(nUrl, <<"\n">>)) =>
        /\ nRedacted = BeforeQuestionMark(nUrl) \o QstringMarker
        /\ ~Contains(nRedacted, <<"?">>)

====
